---------------------------- MODULE Spec2Model ----------------------------
(***************************************************************************)
(* The timing classifier and packet decoder of flipper-ir-dumps            *)
(* (signal/parsed/parsing.rs) and round_to of flipper-utils, as a state    *)
(* machine: one call of an entry point on one input, stepped rule by rule. *)
(***************************************************************************)
EXTENDS Integers, Sequences, FiniteSets, TLC

(***************************************************************************)
(* u32.  A u32 is the pair <<hi, lo>> of its 16-bit halves, so that the    *)
(* whole 32-bit range, and the carry out of it, can be computed.           *)
(***************************************************************************)
Half == 65536

u32(n) == <<n \div Half, n % Half>>

U32_MAX == <<Half - 1, Half - 1>>

\* x <= y on u32
U32Le(x, y) == x[1] < y[1] \/ (x[1] = y[1] /\ x[2] <= y[2])

\* x + y on u32: the wrapped sum, and whether the true sum left the range
U32Add(x, y) ==
    LET lo == x[2] + y[2]
        hi == x[1] + y[1] + lo \div Half
    IN  [value |-> <<hi % Half, lo % Half>>, overflow |-> hi >= Half]

\* x - y on u32, for y <= x
U32Sub(x, y) ==
    LET borrow == IF x[2] < y[2] THEN 1 ELSE 0
    IN  <<x[1] - y[1] - borrow, x[2] + borrow * Half - y[2]>>

\* x / d and x % d on u32 (truncating), for a divisor 0 < d < 2^15
U32Div(x, d) ==
    LET rem == x[1] % d[2]
    IN  <<x[1] \div d[2], (rem * Half + x[2]) \div d[2]>>

U32Rem(x, d) == u32(((x[1] % d[2]) * Half + x[2]) % d[2])

\* x * d on u32, for a factor 0 < d < 2^15
U32Mul(x, d) ==
    LET lo == x[2] * d[2]
        hi == x[1] * d[2] + lo \div Half
    IN  [value |-> <<hi % Half, lo % Half>>, overflow |-> hi >= Half]

(***************************************************************************)
(* Build profiles.  An overflowing u32 addition panics where overflow      *)
(* checks are compiled in (debug) and wraps where they are not (release).  *)
(***************************************************************************)
Builds == {"debug", "release"}

\* flipper_utils::round_to: (x + round_to / 2) / round_to * round_to
round_to(x, r, profile) ==
    LET sum  == U32Add(x, U32Div(r, u32(2)))
        prod == U32Mul(U32Div(sum.value, r), r)
    IN  IF (sum.overflow \/ prod.overflow) /\ profile = "debug"
        THEN [panic |-> TRUE, value |-> u32(0)]
        ELSE [panic |-> FALSE, value |-> prod.value]


(***************************************************************************)
(* Time slots (parsing.rs: DurationClass, SignalComponent, TimeSlot).      *)
(***************************************************************************)
SHORT_DURATION == u32(550)

LONG_BIT_DURATION == U32Mul(u32(3), SHORT_DURATION).value

ROUND_TO == SHORT_DURATION

Short == [class |-> "Short", value |-> u32(0)]

Long == [class |-> "Long", value |-> u32(0)]

Unusual(v) == [class |-> "Unusual", value |-> v]

TimeSlot(duration, component) == [duration |-> duration, component |-> component]

\* the ts! macro: +short, -short, +long, -long, +value, -value
PulseShort == TimeSlot(Short, "Pulse")

PauseShort == TimeSlot(Short, "Pause")

PulseLong == TimeSlot(Long, "Pulse")

PauseLong == TimeSlot(Long, "Pause")

PulseOf(v) == TimeSlot(Unusual(v), "Pulse")

PauseOf(v) == TimeSlot(Unusual(v), "Pause")

IsUnusual(slot, component) ==
    slot.component = component /\ slot.duration.class = "Unusual"

Tail2(stream) == SubSeq(stream, 3, Len(stream))

\* x / SHORT_DURATION is in the half-open range lo..hi-1
InRange(lo, hi, x) ==
    LET q == U32Div(x, SHORT_DURATION)
    IN  U32Le(u32(lo), q) /\ ~U32Le(u32(hi), q)

(***************************************************************************)
(* nom's IResult: Ok((rest, out)) or Err(Error{input, code}).              *)
(***************************************************************************)
Ok(rest, out) == [kind |-> "Ok", rest |-> rest, out |-> out]

Error(input, code) == [kind |-> "Err", input |-> input, code |-> code]

\* stream_to_signals: a panic of round_to unwinds through the whole call
Panic == [kind |-> "Panic"]

Classify(i, duration, profile) ==
    LET rounded == round_to(duration, ROUND_TO, profile)
        component == IF (i - 1) % 2 = 0 THEN "Pulse" ELSE "Pause"
    IN  IF rounded.panic THEN Panic
        ELSE IF rounded.value = SHORT_DURATION THEN TimeSlot(Short, component)
        ELSE IF rounded.value = LONG_BIT_DURATION THEN TimeSlot(Long, component)
        ELSE TimeSlot(Unusual(duration), component)

stream_to_signals(signal_timings, profile) ==
    LET slots == [i \in 1..Len(signal_timings) |->
                    Classify(i, signal_timings[i], profile)]
    IN  IF \E i \in 1..Len(signal_timings) : slots[i] = Panic
        THEN Panic
        ELSE Ok(<<>>, slots)

(***************************************************************************)
(* The grammar rules, each a match on the head of the stream.              *)
(***************************************************************************)
\* ir_dump_start with the pause compared by >= 26
ir_dump_start_from_26(stream) ==
    IF stream = <<>> THEN Error(stream, "Eof")
    ELSE IF /\ Len(stream) >= 2
            /\ stream[1] = PulseShort
            /\ IsUnusual(stream[2], "Pause")
            /\ U32Le(u32(26), U32Div(stream[2].duration.value, SHORT_DURATION))
         THEN Ok(Tail2(stream), "unit")
         ELSE Error(stream, "Tag")

ir_dump_start(stream) ==
    IF stream = <<>> THEN Error(stream, "Eof")
    ELSE IF /\ Len(stream) >= 2
            /\ stream[1] = PulseShort
            /\ IsUnusual(stream[2], "Pause")
            /\ ~U32Le(U32Div(stream[2].duration.value, SHORT_DURATION), u32(26))
         THEN Ok(Tail2(stream), "unit")
         ELSE Error(stream, "Tag")

\* packet_bit with the two pauses exchanged
packet_bit_swapped(stream) ==
    IF stream = <<>> THEN Error(stream, "Eof")
    ELSE IF Len(stream) >= 2 /\ stream[1] = PulseShort /\ stream[2] = PauseShort
         THEN Ok(Tail2(stream), TRUE)
    ELSE IF Len(stream) >= 2 /\ stream[1] = PulseShort /\ stream[2] = PauseLong
         THEN Ok(Tail2(stream), FALSE)
         ELSE Error(stream, "Tag")

packet_bit(stream) ==
    IF stream = <<>> THEN Error(stream, "Eof")
    ELSE IF Len(stream) >= 2 /\ stream[1] = PulseShort /\ stream[2] = PauseShort
         THEN Ok(Tail2(stream), FALSE)
    ELSE IF Len(stream) >= 2 /\ stream[1] = PulseShort /\ stream[2] = PauseLong
         THEN Ok(Tail2(stream), TRUE)
         ELSE Error(stream, "Tag")

\* packet_start with the closed ranges 4..=7 and 15..=20
packet_start_inclusive(stream) ==
    IF stream = <<>> THEN Error(stream, "Eof")
    ELSE IF /\ Len(stream) >= 2
            /\ IsUnusual(stream[1], "Pulse")
            /\ IsUnusual(stream[2], "Pause")
            /\ InRange(4, 8, stream[1].duration.value)
            /\ InRange(15, 21, stream[2].duration.value)
         THEN Ok(Tail2(stream), "unit")
         ELSE Error(stream, "Tag")

packet_start(stream) ==
    IF stream = <<>> THEN Error(stream, "Eof")
    ELSE IF /\ Len(stream) >= 2
            /\ IsUnusual(stream[1], "Pulse")
            /\ IsUnusual(stream[2], "Pause")
            /\ InRange(4, 7, stream[1].duration.value)
            /\ InRange(15, 20, stream[2].duration.value)
         THEN Ok(Tail2(stream), "unit")
         ELSE Error(stream, "Tag")

\* packet_end that leaves the lone short pulse in the stream
packet_end_keeps_pulse(stream) ==
    IF stream = <<>> THEN Error(stream, "Eof")
    ELSE IF Len(stream) = 1 /\ stream[1] = PulseShort THEN Ok(stream, "unit")
    ELSE IF /\ Len(stream) >= 2
            /\ stream[1] = PulseShort
            /\ IsUnusual(stream[2], "Pause")
            /\ InRange(4, 7, stream[2].duration.value)
         THEN Ok(Tail2(stream), "unit")
         ELSE Error(stream, "Tag")

\* packet_end without its end-of-stream case
packet_end_gap_only(stream) ==
    IF stream = <<>> THEN Error(stream, "Eof")
    ELSE IF /\ Len(stream) >= 2
            /\ stream[1] = PulseShort
            /\ IsUnusual(stream[2], "Pause")
            /\ InRange(4, 7, stream[2].duration.value)
         THEN Ok(Tail2(stream), "unit")
         ELSE Error(stream, "Tag")

\* packet_end taking a short pulse with anything after it as the last one
packet_end_anywhere(stream) ==
    IF stream = <<>> THEN Error(stream, "Eof")
    ELSE IF /\ Len(stream) >= 2
            /\ stream[1] = PulseShort
            /\ IsUnusual(stream[2], "Pause")
            /\ InRange(4, 7, stream[2].duration.value)
         THEN Ok(Tail2(stream), "unit")
    ELSE IF stream[1] = PulseShort THEN Ok(SubSeq(stream, 2, Len(stream)), "unit")
         ELSE Error(stream, "Tag")

packet_end(stream) ==
    IF stream = <<>> THEN Error(stream, "Eof")
    ELSE IF stream = <<PulseShort>> THEN Ok(SubSeq(stream, 2, Len(stream)), "unit")
    ELSE IF /\ Len(stream) >= 2
            /\ stream[1] = PulseShort
            /\ IsUnusual(stream[2], "Pause")
            /\ InRange(4, 7, stream[2].duration.value)
         THEN Ok(Tail2(stream), "unit")
         ELSE Error(stream, "Tag")

\* single_packet, lines 218-221: push the bits from the last received to the first
RECURSIVE PushRev(_, _)
PushRev(data, bits) ==
    IF bits = <<>> THEN data
    ELSE PushRev(Append(data, bits[Len(bits)]), SubSeq(bits, 1, Len(bits) - 1))

\* a packet built in reception order
NewPacketForward(bits) == [data |-> bits]

NewPacket(bits) == [data |-> PushRev(<<>>, bits)]

(***************************************************************************)
(* Inputs.  Slot streams are built the way the unit tests build them, from *)
(* the captured values 17700, 2972, 8930 and 2920; raw timings are their   *)
(* durations.  Every bound is a definition.                                *)
(***************************************************************************)
MaxLen == 14      \* slots of a well-formed stream

MaxTail == 1      \* slots that follow the two a rule looks at

MaxRaw == 2       \* length of the raw sequences taken from RawValues

Lookahead == 2    \* a rule matches [a, b, rest @ ..]

SeqsUpTo(S, n) == UNION {[1..m -> S] : m \in 0..n}

RECURSIVE Concat(_)
Concat(ss) == IF ss = <<>> THEN <<>> ELSE Head(ss) \o Concat(Tail(ss))

DumpHeader == <<PulseShort, PauseOf(u32(17700))>>

PacketHeader == <<PulseOf(u32(2972)), PauseOf(u32(8930))>>

GapEnd == <<PulseShort, PauseOf(u32(2920))>>

LoneEnd == <<PulseShort>>

BitSlots(b) == <<PulseShort, IF b THEN PauseLong ELSE PauseShort>>

EncodeBits(B) == Concat([k \in 1..Len(B) |-> BitSlots(B[k])])

EncodePacket(B, end) == PacketHeader \o EncodeBits(B) \o end

\* the stream of the bit lists Bs; every packet but the last ends with a gap
EncodeDump(Bs, end) ==
    DumpHeader \o Concat([j \in 1..Len(Bs) |->
        EncodePacket(Bs[j], IF j < Len(Bs) THEN GapEnd ELSE end)])

\* the non-empty bit lists of at most n bits
BitLists(n) == UNION {[1..m -> BOOLEAN] : m \in 1..n}

\* the bit-list sequences whose stream, ended by a lone pulse, has at most
\* MaxLen slots: 4k + 2B + 1 for k packets of B bits in all
Plans ==
    {Bs \in SeqsUpTo(BitLists((MaxLen - 5) \div 2), (MaxLen - 1) \div 6) :
        Bs # <<>> /\ Len(EncodeDump(Bs, LoneEnd)) <= MaxLen}

WellFormed(end) == {EncodeDump(Bs, end) : Bs \in Plans}

WellFormedPackets(end) ==
    {EncodePacket(B, end) : B \in BitLists((MaxLen - 5) \div 2)}

\* the band edges of the rules, as Unusual values
EdgeValues ==
    {u32(v) : v \in {2199, 2200, 3849, 3850, 8249, 8250, 10999, 11000, 14300, 14850}}

UnitSlots ==
    {TimeSlot(d, c) : d \in {Short, Long} \cup {Unusual(v) : v \in EdgeValues},
                      c \in {"Pulse", "Pause"}}

TailSlots == {PulseShort, PauseShort, PauseOf(u32(2920))}

UnitStreams ==
    {h \o t : h \in SeqsUpTo(UnitSlots, Lookahead), t \in SeqsUpTo(TailSlots, MaxTail)}

\* a slot stream with one slot replaced, or cut short
Replaced(s, S) == {[s EXCEPT ![p] = v] : p \in 1..Len(s), v \in S}

Prefixes(s) == {SubSeq(s, 1, n) : n \in 0..Len(s)}

FaultSlots ==
    {PulseShort, PauseShort, PauseLong, PauseOf(u32(2920)), PauseOf(u32(1100))}

PacketStreams ==
    UNION {{s} \cup Prefixes(s) \cup Replaced(s, FaultSlots) :
           s \in WellFormedPackets(LoneEnd) \cup WellFormedPackets(GapEnd)}

DumpStreams ==
    UNION {{s} \cup Prefixes(s) : s \in WellFormed(LoneEnd) \cup WellFormed(GapEnd)}

\* the raw duration a slot was classified from
RawOf(slot) ==
    IF slot.duration.class = "Short" THEN SHORT_DURATION
    ELSE IF slot.duration.class = "Long" THEN LONG_BIT_DURATION
    ELSE slot.duration.value

Raw(s) == [k \in 1..Len(s) |-> RawOf(s[k])]

FirstOverflow == U32Sub(U32_MAX, u32(274))

FaultValues ==
    {u32(550), u32(1650), u32(1100), u32(2920), u32(8930), U32_MAX}

RawValues ==
    {u32(v) : v \in {0, 274, 275, 550, 824, 825, 1374, 1375, 1650, 1924, 1925, 17700}}
        \cup {U32Sub(FirstOverflow, u32(1)), FirstOverflow, U32_MAX}

\* round_to's operands: every small pair, the values of its tests, and the top
\* of the u32 range
MaxX == 40

MaxR == 8

RoundX ==
    {u32(n) : n \in 0..MaxX} \cup RawValues
        \cup {u32(n) : n \in {120, 125, 549, 551, 2972, 300000}}

RoundR == {u32(n) : n \in 1..MaxR} \cup {u32(50), u32(550)}

RawStreams ==
    SeqsUpTo(RawValues, MaxRaw)
        \cup UNION {{Raw(s)} \cup Prefixes(Raw(s)) \cup Replaced(Raw(s), FaultValues) :
                    s \in WellFormed(LoneEnd) \cup WellFormed(GapEnd)}

(***************************************************************************)
(* The dump parser (dump.rs).  Text is a string; a parser returns          *)
(* Ok(rest, out) or Error(input, code) as the nom parsers do, with `input` *)
(* the text left at the point of the error.                                *)
(***************************************************************************)
Char(s, n) == SubSeq(s, n, n)

From(s, n) == SubSeq(s, n, Len(s))

StartsWith(s, t) == Len(s) >= Len(t) /\ SubSeq(s, 1, Len(t)) = t

\* the length of the longest prefix of s made of characters of C
Span(s, C) ==
    CHOOSE n \in 0..Len(s) :
        /\ \A k \in 1..n : Char(s, k) \in C
        /\ n < Len(s) => Char(s, n + 1) \notin C

\* the length of the longest prefix of s with no character of C
SpanUntil(s, C) ==
    CHOOSE n \in 0..Len(s) :
        /\ \A k \in 1..n : Char(s, k) \notin C
        /\ n < Len(s) => Char(s, n + 1) \in C

Digits == {"0", "1", "2", "3", "4", "5", "6", "7", "8", "9"}

DigitValue(c) ==
    CASE c = "0" -> 0 [] c = "1" -> 1 [] c = "2" -> 2 [] c = "3" -> 3 [] c = "4" -> 4
      [] c = "5" -> 5 [] c = "6" -> 6 [] c = "7" -> 7 [] c = "8" -> 8 [] c = "9" -> 9

tag(t, input) ==
    IF StartsWith(input, t) THEN Ok(From(input, Len(t) + 1), t)
    ELSE Error(input, "Tag")

line_ending(input) ==
    IF StartsWith(input, "\n") THEN Ok(From(input, 2), "\n")
    ELSE IF StartsWith(input, "\r\n") THEN Ok(From(input, 3), "\r\n")
    ELSE Error(input, "CrLf")

not_line_ending(input) ==
    LET n == SpanUntil(input, {"\r", "\n"})
    IN  IF n < Len(input) /\ Char(input, n + 1) = "\r" /\ ~StartsWith(From(input, n + 1), "\r\n")
        THEN Error(input, "Tag")
        ELSE Ok(From(input, n + 1), SubSeq(input, 1, n))

digit1(input) ==
    LET n == Span(input, Digits)
    IN  IF n = 0 THEN Error(input, "Digit")
        ELSE Ok(From(input, n + 1), SubSeq(input, 1, n))

\* str::parse::<u32> on a string of digits, value the number read so far:
\* Err when the number does not fit
RECURSIVE parse_u32(_, _)
parse_u32(digits, value) ==
    IF digits = "" THEN [kind |-> "Ok", out |-> value]
    ELSE LET times10 == U32Mul(value, u32(10))
             plus == U32Add(times10.value, u32(DigitValue(Char(digits, 1))))
         IN  IF times10.overflow \/ plus.overflow THEN [kind |-> "Err"]
             ELSE parse_u32(From(digits, 2), plus.value)

\* version, lines 43-48: parse().unwrap() panics when the digits overflow
version(input) ==
    LET t == tag("Version: ", input)
        d == digit1(t.rest)
        n == parse_u32(d.out, u32(0))
    IN  IF t.kind = "Err" THEN t
        ELSE IF d.kind = "Err" THEN d
        ELSE IF n.kind = "Err" THEN Panic
        ELSE Ok(d.rest, n.out)

\* map_res(digit1, parse::<u32>): a number that does not fit is an error at
\* the start of the digits
parse_u32_str(input) ==
    LET d == digit1(input)
        n == parse_u32(d.out, u32(0))
    IN  IF d.kind = "Err" THEN d
        ELSE IF n.kind = "Err" THEN Error(input, "MapRes")
        ELSE Ok(d.rest, n.out)

name(input) ==
    LET t == tag("name: ", input)
    IN  IF t.kind = "Err" THEN t ELSE not_line_ending(t.rest)

signal_type(input) ==
    LET t == tag("type: ", input)
        r == tag("raw", t.rest)
    IN  IF t.kind = "Err" THEN t
        ELSE IF r.kind = "Err" THEN r
        ELSE Ok(r.rest, "Raw")

frequency(input) ==
    LET t == tag("frequency: ", input)
    IN  IF t.kind = "Err" THEN t ELSE parse_u32_str(t.rest)

\* number::complete::float on the decimal forms the dumps use, an optional
\* sign, digits and an optional fraction, or a fraction alone; its value is
\* kept as the text recognised
float(input) ==
    LET s == IF StartsWith(input, "-") \/ StartsWith(input, "+") THEN 1 ELSE 0
        whole == Span(From(input, s + 1), Digits)
        dot == IF StartsWith(From(input, s + whole + 1), ".") THEN 1 ELSE 0
        fraction == IF dot = 1 THEN Span(From(input, s + whole + 2), Digits) ELSE 0
        n == s + whole + dot + fraction
    IN  IF whole = 0 /\ fraction = 0 THEN Error(input, "Float")
        ELSE Ok(From(input, n + 1), SubSeq(input, 1, n))

duty_cycle(input) ==
    LET t == tag("duty_cycle: ", input)
    IN  IF t.kind = "Err" THEN t ELSE float(t.rest)

\* separated_list0(tag(" "), parse_u32_str) after its first element: an
\* element that fails after a separator ends the list before the separator
RECURSIVE separated_list0(_, _)
separated_list0(input, res) ==
    LET s == tag(" ", input)
        o == parse_u32_str(s.rest)
    IN  IF s.kind = "Err" THEN Ok(input, res)
        ELSE IF o.kind = "Err" THEN Ok(input, res)
        ELSE separated_list0(o.rest, Append(res, o.out))

data(input) ==
    LET t == tag("data: ", input)
        o == parse_u32_str(t.rest)
    IN  IF t.kind = "Err" THEN t
        ELSE IF o.kind = "Err" THEN Ok(t.rest, <<>>)
        ELSE separated_list0(o.rest, <<o.out>>)

RawSignal(n, t, f, dc, d) ==
    [name |-> n, type |-> t, frequency |-> f, duty_cycle |-> dc, data |-> d]

saved_signal(input) ==
    LET hash == tag("#", input)
        comment == not_line_ending(hash.rest)
        eol1 == line_ending(comment.rest)
        n == name(eol1.rest)
        eol2 == line_ending(n.rest)
        t == signal_type(eol2.rest)
        eol3 == line_ending(t.rest)
        f == frequency(eol3.rest)
        eol4 == line_ending(f.rest)
        dc == duty_cycle(eol4.rest)
        eol5 == line_ending(dc.rest)
        d == data(eol5.rest)
        eol6 == line_ending(d.rest)
    IN  IF hash.kind = "Err" THEN hash
        ELSE IF comment.kind = "Err" THEN comment
        ELSE IF eol1.kind = "Err" THEN eol1
        ELSE IF n.kind = "Err" THEN n
        ELSE IF eol2.kind = "Err" THEN eol2
        ELSE IF t.kind = "Err" THEN t
        ELSE IF eol3.kind = "Err" THEN eol3
        ELSE IF f.kind = "Err" THEN f
        ELSE IF eol4.kind = "Err" THEN eol4
        ELSE IF dc.kind = "Err" THEN dc
        ELSE IF eol5.kind = "Err" THEN eol5
        ELSE IF d.kind = "Err" THEN d
        ELSE IF eol6.kind = "Err" THEN eol6
        ELSE Ok(eol6.rest, RawSignal(n.out, t.out, f.out, dc.out, d.out))

\* many0(saved_signal): the first record that fails ends the list at its start
RECURSIVE many0(_, _)
many0(input, res) ==
    LET item(o) ==
            IF o.kind = "Err" THEN Ok(input, res)
            ELSE IF Len(o.rest) = Len(input) THEN Error(input, "Many0")
            ELSE many0(o.rest, Append(res, o.out))
    IN  item(saved_signal(input))

all_consuming(r) ==
    IF r.kind = "Ok" /\ r.rest # "" THEN Error(r.rest, "Eof") ELSE r

dump_file(input) ==
    LET filetype == tag("Filetype: IR signals file", input)
        eol1 == line_ending(filetype.rest)
        v == version(eol1.rest)
        eol2 == line_ending(v.rest)
        file(s) ==
            IF s.kind = "Err" THEN s
            ELSE Ok(s.rest, [version |-> v.out, signals |-> s.out])
    IN  IF filetype.kind = "Err" THEN filetype
        ELSE IF eol1.kind = "Err" THEN eol1
        ELSE IF v.kind # "Ok" THEN v
        ELSE IF eol2.kind = "Err" THEN eol2
        ELSE file(all_consuming(many0(eol2.rest, <<>>)))

\* DumpFile::try_from: dump_file(input).finish().map(|(_, dump)| dump)
try_from(input) ==
    LET finish(r) == IF r.kind = "Ok" THEN [kind |-> "Ok", out |-> r.out] ELSE r
    IN  finish(dump_file(input))

(***************************************************************************)
(* Dump texts: the files a Flipper writes, and files with one fault.       *)
(***************************************************************************)
MaxRecords == 2

\* a u32 in decimal, as the dump shows it
RECURSIVE Decimal(_)
Decimal(x) ==
    LET digit == SubSeq("0123456789", U32Rem(x, u32(10))[2] + 1, U32Rem(x, u32(10))[2] + 1)
    IN  IF U32Le(x, u32(9)) THEN digit ELSE Decimal(U32Div(x, u32(10))) \o digit

RECURSIVE Joined(_, _)
Joined(texts, separator) ==
    IF texts = <<>> THEN ""
    ELSE IF Len(texts) = 1 THEN texts[1]
    ELSE texts[1] \o separator \o Joined(Tail(texts), separator)

\* the text of each field of a signal
Shown(signal) ==
    [comment |-> "",
     name |-> signal.name,
     type |-> "raw",
     frequency |-> Decimal(signal.frequency),
     duty_cycle |-> signal.duty_cycle,
     data |-> Joined([k \in 1..Len(signal.data) |-> Decimal(signal.data[k])], " ")]

\* a record up to the value of its frequency, and the six lines of a record
RecordHead(fields) ==
    "#" \o fields.comment \o "\nname: " \o fields.name \o "\ntype: " \o fields.type
        \o "\nfrequency: "

RecordText(fields) ==
    RecordHead(fields) \o fields.frequency \o "\nduty_cycle: " \o fields.duty_cycle
        \o "\ndata: " \o fields.data \o "\n"

Records(ss) == Joined([k \in 1..Len(ss) |-> RecordText(Shown(ss[k]))], "")

HeaderHead == "Filetype: IR signals file\nVersion: "

HeaderText(v) == HeaderHead \o v \o "\n"

DumpText(v, ss) == HeaderText(Decimal(v)) \o Records(ss)

\* a signal that decodes, one with no data, and one whose data overflows round_to
SignalOn ==
    RawSignal("on", "Raw", u32(38000), "0.33", Raw(EncodeDump(<<<<FALSE>>>>, LoneEnd)))

SignalOff == RawSignal("off", "Raw", U32_MAX, "0.5", <<>>)

SignalTop == RawSignal("top", "Raw", u32(0), "1", <<u32(550), U32_MAX>>)

Signals == {SignalOn, SignalOff, SignalTop}

Versions == {u32(1), U32_MAX}

WellFormedTexts == {DumpText(v, ss) : v \in Versions, ss \in SeqsUpTo(Signals, MaxRecords)}

\* values that are not u32 numbers in decimal
NotDigits == {"", "x", "-1", "1x"}

TooLarge == {"4294967296", "99999999999"}

VersionFaults ==
    {HeaderText(v) \o Records(ss) \o trailer :
        v \in NotDigits \cup TooLarge, ss \in SeqsUpTo({SignalOn}, 1), trailer \in {"", "x"}}

\* a record with a bad frequency after the records `before`
FrequencyFault(before, bad, after) ==
    DumpText(u32(1), before) \o RecordText([Shown(SignalOn) EXCEPT !.frequency = bad])
        \o Records(after)

FrequencyFaults ==
    {FrequencyFault(before, bad, after) :
        before \in SeqsUpTo({SignalOn, SignalOff}, MaxRecords - 1),
        bad \in NotDigits \cup TooLarge,
        after \in SeqsUpTo({SignalOn}, 1)}

FaultyFields ==
    {[Shown(SignalOn) EXCEPT !.type = "parsed"],
     [Shown(SignalOn) EXCEPT !.duty_cycle = "x"],
     [Shown(SignalOn) EXCEPT !.data = "550 x"],
     [Shown(SignalOn) EXCEPT !.data = "550  550"],
     [Shown(SignalOn) EXCEPT !.data = "550 4294967296"],
     [Shown(SignalOn) EXCEPT !.name = "on\rx"],
     [Shown(SignalOn) EXCEPT !.comment = "\nname: on"]}

RecordFaults ==
    {DumpText(u32(1), before) \o RecordText(fields) \o Records(after) :
        before \in SeqsUpTo({SignalOn, SignalOff}, MaxRecords - 1),
        fields \in FaultyFields,
        after \in SeqsUpTo({SignalOn}, 1)}

Trailers == {"\n", " ", "x", "#", "#\nname: on\n"}

TrailingContent == {t \o trailer : t \in WellFormedTexts, trailer \in Trailers}

\* a dump cut short, and one with the line endings of another system
CutShort ==
    LET t == DumpText(u32(1), <<SignalOn, SignalOff>>)
    IN  {SubSeq(t, 1, n) : n \in 0..Len(t)}

CrLf ==
    "Filetype: IR signals file\r\nVersion: 1\r\n# \r\nname: on\r\ntype: raw\r\n"
        \o "frequency: 38000\r\nduty_cycle: 0.33\r\ndata: 550 17700\r\n"

DumpTexts ==
    WellFormedTexts \cup VersionFaults \cup FrequencyFaults \cup RecordFaults
        \cup TrailingContent \cup CutShort \cup {CrLf}

(***************************************************************************)
(* plot_signal (plotting.rs): the time axis of the chart.                  *)
(***************************************************************************)
U32Max(x, y) == IF U32Le(x, y) THEN y ELSE x

\* rounded_signal.iter().sum() from the k-th element on, onto total: the u32
\* additions panic or wrap as the build has them
RECURSIVE sum(_, _, _, _)
sum(rounded_signal, k, total, profile) ==
    IF k > Len(rounded_signal) THEN [panic |-> FALSE, value |-> total]
    ELSE LET s == U32Add(total, rounded_signal[k])
         IN  IF s.overflow /\ profile = "debug" THEN [panic |-> TRUE, value |-> total]
             ELSE sum(rounded_signal, k + 1, s.value, profile)

\* plot_signal, lines 53-61: the upper limit of the x axis
x_limit(signal_data, profile) ==
    LET rounded == [k \in 1..Len(signal_data) |-> round_to(signal_data[k], ROUND_TO, profile)]
        rounded_signal == [k \in 1..Len(signal_data) |-> rounded[k].value]
        total_timing == sum(rounded_signal, 1, u32(0), profile)
        least == round_to(u32(300000), ROUND_TO, profile)
    IN  IF \E k \in 1..Len(signal_data) : rounded[k].panic THEN Panic
        ELSE IF total_timing.panic \/ least.panic THEN Panic
        ELSE [kind |-> "Ok", out |-> U32Max(total_timing.value, least.value)]

MaxPlot == 2

\* durations around the rounding steps, around 300,000 and at the top of u32
PlotValues ==
    {u32(n) : n \in {0, 274, 275, 550, 1650, 150000, 299474, 299475, 299750, 300000, 300024,
                     300025, 300300, 600000}}
        \cup {<<32768, 0>>, FirstOverflow, U32_MAX}

PlotData ==
    SeqsUpTo(PlotValues, MaxPlot) \cup {Raw(EncodeDump(<<<<FALSE, TRUE>>>>, LoneEnd))}

(***************************************************************************)
(* ParsedSignal::try_from as the command-line wrappers call it: the        *)
(* decoder as a function of the raw durations.                             *)
(***************************************************************************)
\* many1(packet_bit) after its first bit
RECURSIVE many1_packet_bit(_, _)
many1_packet_bit(stream, bits) ==
    LET item(r) ==
            IF r.kind = "Err" THEN Ok(stream, bits)
            ELSE many1_packet_bit(r.rest, Append(bits, r.out))
    IN  item(packet_bit(stream))

single_packet(stream) ==
    LET start == packet_start(stream)
        first == packet_bit(start.rest)
        build(bits, end) ==
            IF end.kind = "Err" THEN end ELSE Ok(end.rest, NewPacket(bits.out))
        ended(bits) == build(bits, packet_end(bits.rest))
    IN  IF start.kind = "Err" THEN start
        ELSE IF first.kind = "Err" THEN first
        ELSE ended(many1_packet_bit(first.rest, <<first.out>>))

\* many1(single_packet) after its first packet
RECURSIVE many1_single_packet(_, _)
many1_single_packet(i, acc) ==
    LET item(r) ==
            IF r.kind = "Err" THEN Ok(i, acc)
            ELSE many1_single_packet(r.rest, Append(acc, r.out))
    IN  item(single_packet(i))

ir_dump_to_packets(stream) ==
    LET start == ir_dump_start(stream)
        all_consuming_packets(packets) ==
            IF packets.rest # <<>> THEN Error(packets.rest, "Eof") ELSE packets
        many1(first) ==
            IF first.kind = "Err" THEN first
            ELSE all_consuming_packets(many1_single_packet(first.rest, <<first.out>>))
    IN  IF start.kind = "Err" THEN start
        ELSE many1(single_packet(start.rest))

stream_to_packets(signal_timings, profile) ==
    LET finish(packets) ==
            IF packets.kind = "Err" THEN packets
            ELSE [kind |-> "Ok", out |-> packets.out]
        decode(signals) ==
            IF signals.kind = "Panic" THEN Panic
            ELSE finish(ir_dump_to_packets(signals.out))
    IN  decode(stream_to_signals(signal_timings, profile))

\* the dump files the wrappers are run on
CliTexts ==
    WellFormedTexts
        \cup {HeaderText("x"), HeaderText("4294967296"),
              DumpText(u32(1), <<SignalOn>>) \o "x",
              FrequencyFault(<<SignalOn>>, "x", <<>>)}

(***************************************************************************)
(* State: one call of `entry` on one input.                                *)
(*   profile         the build profile of the binary                       *)
(*   entry           the function called (stream_to_packets by             *)
(*                   ParsedSignal::try_from, the others by the unit tests) *)
(*   operands        round_to's arguments <<x, round_to>>                  *)
(*   signal_timings  stream_to_packets' argument                           *)
(*   signals         the slot sequence the grammar is applied to           *)
(*   stream          the rule's input: what is left of `signals`           *)
(*   i, acc          many1(single_packet)'s input and accumulator          *)
(*   bits, packet    single_packet's locals                                *)
(*   pc              the rule to apply next                                *)
(*   result          the value `entry` returned                            *)
(*   applications    the grammar rules applied so far                      *)
(*   contents        the text of the dump file                             *)
(*   dump            main's `dump`: what DumpFile::try_from returned       *)
(*   next_signal     the position of main's loop in dump.signals()         *)
(*   effects         what main did to its environment, in order            *)
(***************************************************************************)
VARIABLES profile, entry, operands, signal_timings, signals, stream, i, acc, bits,
          packet, pc, result, applications, contents, dump, next_signal, effects

vars == <<profile, entry, operands, signal_timings, signals, stream, i, acc, bits,
          packet, pc, result, applications, contents, dump, next_signal, effects>>

\* the run of a command-line wrapper around the library calls
run == <<contents, dump, next_signal, effects>>

\* what the caller fixed before the call
call == <<profile, entry, operands, signal_timings>>

None == [kind |-> "None"]

NoPacket == [data |-> <<>>]

Return(value) == result' = value /\ pc' = "done"

\* many1 that hands every failure of single_packet up, also after a packet
SinglePacketRequired(e) == Return(e) /\ UNCHANGED <<stream, i, acc>>

\* single_packet returned Err(e) to its caller
SinglePacketFailed(e) ==
    IF entry = "single_packet" THEN
        Return(e) /\ UNCHANGED <<stream, i, acc>>
    ELSE IF acc = <<>> THEN
        \* many1: the first application failed; `?` hands e up to the entry
        Return(e) /\ UNCHANGED <<stream, i, acc>>
    ELSE
        \* many1: a later application failed; Ok((i, acc))
        /\ stream' = i
        /\ pc' = "all_consuming"
        /\ UNCHANGED <<result, i, acc>>

\* flipper_utils: one call of round_to, as test_round_to makes it
RoundTo ==
    /\ pc = "round_to"
    /\ LET r == round_to(operands[1], operands[2], profile)
       IN  Return(IF r.panic THEN Panic ELSE [kind |-> "Ok", out |-> r.value])
    /\ UNCHANGED <<call, run, signals, stream, i, acc, bits, packet>>
    /\ UNCHANGED applications

\* stream_to_packets, line 43
StreamToSignals ==
    /\ pc = "stream_to_signals"
    /\ LET r == stream_to_signals(signal_timings, profile)
       IN  IF r.kind = "Panic"
           THEN Return(Panic) /\ UNCHANGED <<signals, stream>>
           ELSE /\ signals' = r.out
                /\ stream' = r.out
                /\ pc' = "ir_dump_start"
                /\ UNCHANGED result
    /\ UNCHANGED <<call, run, i, acc, bits, packet>>
    /\ UNCHANGED applications

\* ir_dump_to_packets, line 52
IrDumpStart ==
    /\ pc = "ir_dump_start"
    /\ LET r == ir_dump_start(stream)
       IN  IF entry = "ir_dump_start" \/ r.kind = "Err"
           THEN Return(r) /\ UNCHANGED <<stream, i>>
           ELSE /\ stream' = r.rest
                /\ i' = r.rest
                /\ pc' = "packet_start"
                /\ UNCHANGED result
    /\ UNCHANGED <<call, run, signals, acc, bits, packet>>
    /\ applications' = applications + 1

\* single_packet, line 214
PacketStart ==
    /\ pc = "packet_start"
    /\ LET r == packet_start(stream)
       IN  IF entry = "packet_start" THEN
               Return(r) /\ UNCHANGED <<stream, i, acc>>
           ELSE IF r.kind = "Err" THEN
               SinglePacketFailed(r)
           ELSE
               /\ stream' = r.rest
               /\ pc' = "packet_bit"
               /\ UNCHANGED <<result, i, acc>>
    /\ bits' = <<>>
    /\ packet' = NoPacket
    /\ UNCHANGED <<call, run, signals>>
    /\ applications' = applications + 1

\* single_packet with many0(packet_bit): a packet of no bits is accepted
PacketBitMany0 ==
    /\ pc = "packet_bit"
    /\ LET r == packet_bit(stream)
       IN  IF entry = "packet_bit" THEN
               Return(r) /\ UNCHANGED <<stream, i, acc, bits>>
           ELSE IF r.kind = "Err" THEN
               /\ pc' = "packet_end"
               /\ UNCHANGED <<result, stream, i, acc, bits>>
           ELSE
               /\ stream' = r.rest
               /\ bits' = Append(bits, r.out)
               /\ UNCHANGED <<result, pc, i, acc>>
    /\ UNCHANGED <<call, run, signals, packet>>
    /\ applications' = applications + 1

\* single_packet, line 215: one application of packet_bit by many1
PacketBit ==
    /\ pc = "packet_bit"
    /\ LET r == packet_bit(stream)
       IN  IF entry = "packet_bit" THEN
               Return(r) /\ UNCHANGED <<stream, i, acc, bits>>
           ELSE IF r.kind = "Err" /\ bits = <<>> THEN
               SinglePacketFailed(r) /\ UNCHANGED bits
           ELSE IF r.kind = "Err" THEN
               /\ pc' = "packet_end"
               /\ UNCHANGED <<result, stream, i, acc, bits>>
           ELSE IF bits # <<>> /\ Len(r.rest) = Len(stream) THEN
               SinglePacketFailed(Error(stream, "Many1")) /\ UNCHANGED bits
           ELSE
               /\ stream' = r.rest
               /\ bits' = Append(bits, r.out)
               /\ UNCHANGED <<result, pc, i, acc>>
    /\ UNCHANGED <<call, run, signals, packet>>
    /\ applications' = applications + 1

\* single_packet, line 216
PacketEnd ==
    /\ pc = "packet_end"
    /\ LET r == packet_end(stream)
       IN  IF entry = "packet_end" THEN
               Return(r) /\ UNCHANGED <<stream, i, acc>>
           ELSE IF r.kind = "Err" THEN
               SinglePacketFailed(r)
           ELSE
               /\ stream' = r.rest
               /\ pc' = "packet_build"
               /\ UNCHANGED <<result, i, acc>>
    /\ UNCHANGED <<call, run, signals, bits, packet>>
    /\ applications' = applications + 1

\* single_packet, lines 218-221
PacketBuild ==
    /\ pc = "packet_build"
    /\ packet' = NewPacket(bits)
    /\ pc' = "packet_return"
    /\ UNCHANGED <<call, run, signals, stream, i, acc, bits, result>>
    /\ UNCHANGED applications

\* single_packet, line 223, and many1's loop around it
PacketReturn ==
    /\ pc = "packet_return"
    /\ IF entry = "single_packet" THEN
           Return(Ok(stream, packet)) /\ UNCHANGED <<i, acc>>
       ELSE IF acc # <<>> /\ Len(stream) = Len(i) THEN
           Return(Error(i, "Many1")) /\ UNCHANGED <<i, acc>>
       ELSE
           /\ acc' = Append(acc, packet)
           /\ i' = stream
           /\ pc' = "packet_start"
           /\ UNCHANGED result
    /\ UNCHANGED <<call, run, signals, stream, bits, packet>>
    /\ UNCHANGED applications

\* many1's result returned without all_consuming around it
ManyUnchecked ==
    /\ pc = "all_consuming"
    /\ IF entry = "stream_to_packets"
       THEN Return([kind |-> "Ok", out |-> acc])
       ELSE Return(Ok(stream, acc))
    /\ UNCHANGED <<call, run, signals, stream, i, acc, bits, packet>>
    /\ UNCHANGED applications

\* ir_dump_to_packets, line 53: all_consuming; stream_to_packets, lines 44-48
AllConsuming ==
    /\ pc = "all_consuming"
    /\ IF stream # <<>> THEN
           Return(Error(stream, "Eof"))
       ELSE IF entry = "stream_to_packets" THEN
           Return([kind |-> "Ok", out |-> acc])
       ELSE
           Return(Ok(stream, acc))
    /\ UNCHANGED <<call, run, signals, stream, i, acc, bits, packet>>
    /\ UNCHANGED applications

\* DumpFile::try_from, as test_dump_file calls dump_file
DumpFileTryFrom ==
    /\ pc = "dump_file"
    /\ Return(try_from(contents))
    /\ UNCHANGED <<call, run, signals, stream, i, acc, bits, packet, applications>>

\* plot_signal up to the chart's axes, lines 53-72
PlotSignal ==
    /\ pc = "plot_signal"
    /\ Return(x_limit(signal_timings, profile))
    /\ UNCHANGED <<call, run, signals, stream, i, acc, bits, packet, applications>>

Wrappers == {"csv", "vis"}

\* main returned Ok(()), or an error with the context it was wrapped in
Success == [kind |-> "Ok", out |-> "unit"]

Failure(context) == [kind |-> "Err", context |-> context]

Did(effect) == effects' = Append(effects, effect)

\* the steps of plot_signal that can fail on the way to the image
PlotFailures ==
    {"Failed to fill background", "Failed to build chart", "Failed to draw mesh",
     "Failed to draw series"}

\* both wrappers: read the file and parse the dump (csv lines 14-23, vis 15-24)
MainTryFrom ==
    /\ pc = "main"
    /\ \/ /\ Return(Failure("Failed to read file"))
          /\ UNCHANGED <<dump, effects>>
       \/ /\ dump' = try_from(contents)
          /\ IF dump'.kind = "Panic" THEN
                 Return(Panic) /\ UNCHANGED effects
             ELSE IF dump'.kind = "Err" THEN
                 Return(Success) /\ Did(<<"eprintln", "Failed decoding dump">>)
             ELSE
                 pc' = "create" /\ UNCHANGED <<result, effects>>
    /\ UNCHANGED <<call, contents, next_signal>>
    /\ UNCHANGED <<signals, stream, i, acc, bits, packet, applications>>

\* csv lines 25-28
CsvWriter ==
    /\ entry = "csv"
    /\ pc = "create"
    /\ \/ Return(Failure("Failed to create CSV writer")) /\ UNCHANGED <<effects, next_signal>>
       \/ /\ Did(<<"from_path", "output_file">>)
          /\ next_signal' = 1
          /\ pc' = "signal"
          /\ UNCHANGED result
    /\ UNCHANGED <<call, contents, dump>>
    /\ UNCHANGED <<signals, stream, i, acc, bits, packet, applications>>

\* vis line 26
VisCreateDir ==
    /\ entry = "vis"
    /\ pc = "create"
    /\ \/ Return(Failure("Failed to create output directory"))
          /\ UNCHANGED <<effects, next_signal>>
       \/ /\ Did(<<"create_dir_all", "output_dir">>)
          /\ next_signal' = 1
          /\ pc' = "signal"
          /\ UNCHANGED result
    /\ UNCHANGED <<call, contents, dump>>
    /\ UNCHANGED <<signals, stream, i, acc, bits, packet, applications>>

\* the csv loop in which a signal that does not decode is left out
CsvSignalSkipped ==
    /\ entry = "csv"
    /\ pc = "signal"
    /\ next_signal <= Len(dump.out.signals)
    /\ LET signal == dump.out.signals[next_signal]
           parsed_signal == stream_to_packets(signal.data, profile)
       IN  IF parsed_signal.kind = "Panic" THEN
               Return(Panic) /\ UNCHANGED <<effects, next_signal>>
           ELSE IF parsed_signal.kind = "Err" THEN
               next_signal' = next_signal + 1 /\ UNCHANGED <<pc, result, effects>>
           ELSE
               /\ Did(<<"write_record", next_signal>>)
               /\ next_signal' = next_signal + 1
               /\ UNCHANGED <<pc, result>>
    /\ UNCHANGED <<call, contents, dump>>
    /\ UNCHANGED <<signals, stream, i, acc, bits, packet, applications>>

\* csv lines 30-44: one round of the loop
CsvSignal ==
    /\ entry = "csv"
    /\ pc = "signal"
    /\ next_signal <= Len(dump.out.signals)
    /\ LET signal == dump.out.signals[next_signal]
           parsed_signal == stream_to_packets(signal.data, profile)
       IN  IF parsed_signal.kind = "Panic" THEN
               Return(Panic) /\ UNCHANGED <<effects, next_signal>>
           ELSE IF parsed_signal.kind = "Err" THEN
               Return(Failure("Failed to parse signal")) /\ UNCHANGED <<effects, next_signal>>
           ELSE
               \/ /\ Return(Failure("Failed to write record"))
                  /\ UNCHANGED <<effects, next_signal>>
               \/ /\ Did(<<"write_record", next_signal>>)
                  /\ next_signal' = next_signal + 1
                  /\ UNCHANGED <<pc, result>>
    /\ UNCHANGED <<call, contents, dump>>
    /\ UNCHANGED <<signals, stream, i, acc, bits, packet, applications>>

\* vis lines 28-33: one round of the loop, the plot before the decoding
VisSignal ==
    /\ entry = "vis"
    /\ pc = "signal"
    /\ next_signal <= Len(dump.out.signals)
    /\ LET signal == dump.out.signals[next_signal]
           limit == x_limit(signal.data, profile)
           parsed_signal == stream_to_packets(signal.data, profile)
       IN  IF limit.kind = "Panic" THEN
               Return(Panic) /\ UNCHANGED <<effects, next_signal>>
           ELSE
               \/ /\ \E context \in PlotFailures : Return(Failure(context))
                  /\ UNCHANGED <<effects, next_signal>>
               \/ IF parsed_signal.kind = "Panic" THEN
                      /\ Return(Panic)
                      /\ Did(<<"plot_signal", next_signal>>)
                      /\ UNCHANGED next_signal
                  ELSE IF parsed_signal.kind = "Err" THEN
                      /\ Return(Failure("Failed to parse signal"))
                      /\ Did(<<"plot_signal", next_signal>>)
                      /\ UNCHANGED next_signal
                  ELSE
                      /\ effects' = effects \o <<<<"plot_signal", next_signal>>,
                                                 <<"println", next_signal>>>>
                      /\ next_signal' = next_signal + 1
                      /\ UNCHANGED <<pc, result>>
    /\ UNCHANGED <<call, contents, dump>>
    /\ UNCHANGED <<signals, stream, i, acc, bits, packet, applications>>

\* both wrappers: the loop is over, Ok(())
MainReturn ==
    /\ pc = "signal"
    /\ next_signal > Len(dump.out.signals)
    /\ Return(Success)
    /\ UNCHANGED <<call, run, signals, stream, i, acc, bits, packet, applications>>

Next ==
    \/ RoundTo
    \/ StreamToSignals
    \/ IrDumpStart
    \/ PacketStart
    \/ PacketBit
    \/ PacketEnd
    \/ PacketBuild
    \/ PacketReturn
    \/ AllConsuming
    \/ DumpFileTryFrom
    \/ PlotSignal
    \/ MainTryFrom
    \/ CsvWriter
    \/ VisCreateDir
    \/ CsvSignal
    \/ VisSignal
    \/ MainReturn

\* the functions the unit tests call on a slot stream
RuleEntries == {"ir_dump_start", "packet_start", "packet_bit", "packet_end"}

Init ==
    /\ \/ /\ entry = "round_to"
          /\ profile \in Builds
          /\ operands \in RoundX \X RoundR
          /\ signal_timings = <<>>
          /\ signals = <<>>
          /\ pc = "round_to"
          /\ contents = ""
       \/ /\ entry = "stream_to_packets"
          /\ profile \in Builds
          /\ operands = <<>>
          /\ signal_timings \in RawStreams
          /\ signals = <<>>
          /\ pc = "stream_to_signals"
          /\ contents = ""
       \/ /\ entry = "ir_dump_to_packets"
          /\ profile = "debug"
          /\ operands = <<>>
          /\ signal_timings = <<>>
          /\ signals \in DumpStreams
          /\ pc = "ir_dump_start"
          /\ contents = ""
       \/ /\ entry = "single_packet"
          /\ profile = "debug"
          /\ operands = <<>>
          /\ signal_timings = <<>>
          /\ signals \in PacketStreams
          /\ pc = "packet_start"
          /\ contents = ""
       \/ /\ entry \in RuleEntries
          /\ profile = "debug"
          /\ operands = <<>>
          /\ signal_timings = <<>>
          /\ signals \in UnitStreams
          /\ pc = entry
          /\ contents = ""
       \/ /\ entry = "plot_signal"
          /\ profile \in Builds
          /\ operands = <<>>
          /\ signal_timings \in PlotData
          /\ signals = <<>>
          /\ contents = ""
          /\ pc = "plot_signal"
       \/ /\ entry \in Wrappers
          /\ profile \in Builds
          /\ operands = <<>>
          /\ signal_timings = <<>>
          /\ signals = <<>>
          /\ contents \in CliTexts
          /\ pc = "main"
       \/ /\ entry = "dump_file"
          /\ profile = "debug"
          /\ operands = <<>>
          /\ signal_timings = <<>>
          /\ signals = <<>>
          /\ contents \in DumpTexts
          /\ pc = "dump_file"
    /\ stream = signals
    /\ i = signals
    /\ acc = <<>>
    /\ bits = <<>>
    /\ packet = NoPacket
    /\ result = None
    /\ applications = 0
    /\ dump = None
    /\ next_signal = 0
    /\ effects = <<>>

Spec == Init /\ [][Next]_vars

(***************************************************************************)
(* Properties.                                                             *)
(***************************************************************************)
InSinglePacket == entry \in {"single_packet", "ir_dump_to_packets", "stream_to_packets"}

\* stored is the bits R read backwards, and as long
IsReverse(stored, R) ==
    /\ Len(stored) = Len(R)
    /\ \A k \in 1..Len(R) : stored[k] = R[Len(R) + 1 - k]

\* C1: every packet single_packet decodes stores the reverse of the bits in
\* reception order, bits[i] = R[n-1-i], and has exactly n bits: in the packet
\* it builds, in the result it returns, and in the list many1 collects.
C1_StoredBitsAreReversed ==
    /\ pc = "packet_return" => IsReverse(packet.data, bits)
    /\ (pc = "done" /\ entry = "single_packet" /\ result.kind = "Ok")
            => IsReverse(result.out.data, bits)
    /\ (InSinglePacket /\ pc = "packet_start" /\ acc # <<>>)
            => IsReverse(acc[Len(acc)].data, bits)

\* C1 witness: test_single_packet, bits received 0, 1 are returned as 1, 0
C1_Witness ==
    /\ entry = "single_packet"
    /\ pc = "done"
    /\ bits = <<FALSE, TRUE>>
    /\ result = Ok(<<>>, [data |-> <<TRUE, FALSE>>])

PlanOf(s) == CHOOSE Bs \in Plans : EncodeDump(Bs, LoneEnd) = s

Reversed(B) == [k \in 1..Len(B) |-> B[Len(B) + 1 - k]]

\* C2: the stream of a dump-start pair and k >= 1 packets of non-empty bit
\* lists B_1..B_k, a gap after every packet but the last and a lone short pulse
\* after the last, is decoded by ir_dump_to_packets into exactly k packets in
\* stream order, packet j holding reverse(B_j), with nothing left over.
C2_WellFormedStreamDecodes ==
    (entry = "ir_dump_to_packets" /\ pc = "done" /\ signals \in WellFormed(LoneEnd))
        => result = Ok(<<>>, [j \in 1..Len(PlanOf(signals)) |->
                                [data |-> Reversed(PlanOf(signals)[j])]])

\* C2 witness: two packets, of bits 0 and of bits 1
C2_Witness ==
    /\ entry = "ir_dump_to_packets"
    /\ pc = "done"
    /\ signals = EncodeDump(<<<<FALSE>>, <<TRUE>>>>, LoneEnd)
    /\ result.kind = "Ok"
    /\ Len(result.out) = 2

\* the slot the classifier is specified to give the duration d at index k
\* (from 1): Short for 275..824, Long for 1375..1924, else Unusual(d)
Between(lo, d, hi) == U32Le(u32(lo), d) /\ U32Le(d, u32(hi))

SpecifiedSlot(k, d) ==
    TimeSlot(IF Between(275, d, 824) THEN Short
             ELSE IF Between(1375, d, 1924) THEN Long
             ELSE Unusual(d),
             IF k % 2 = 1 THEN "Pulse" ELSE "Pause")

Classified == entry = "stream_to_packets" /\ pc # "stream_to_signals"

\* C3: stream_to_signals maps every raw duration sequence to a slot sequence
\* of the same length, slot i a Pulse iff i is even (from 0), Short iff the
\* duration rounds to 550, Long iff it rounds to 1650, and otherwise Unusual
\* with the unrounded duration.
C3_EverySequenceIsClassified ==
    Classified =>
        /\ result.kind # "Panic"
        /\ Len(signals) = Len(signal_timings)
        /\ \A k \in 1..Len(signal_timings) :
                signals[k] = SpecifiedSlot(k, signal_timings[k])

\* |y - x| on u32
U32Distance(x, y) == IF U32Le(x, y) THEN U32Sub(y, x) ELSE U32Sub(x, y)

\* C4: for every u32 x and r > 0, round_to(x, r) is a multiple of r at most
\* r/2 away from x, a tie going to the next multiple, and x + r/2 stays within
\* the u32 range.
C4_RoundsToNearestMultiple ==
    (entry = "round_to" /\ pc = "done") =>
        LET x == operands[1]
            r == operands[2]
        IN  /\ ~U32Add(x, U32Div(r, u32(2))).overflow
            /\ result.kind = "Ok"
            /\ U32Rem(result.out, r) = u32(0)
            /\ U32Le(U32Distance(result.out, x), U32Div(r, u32(2)))
            /\ U32Add(U32Rem(x, r), U32Rem(x, r)).value = r => U32Le(x, result.out)

Called(rule) == entry = rule /\ pc = "done"

\* slot is Unusual(p) of the component, with lo <= p <= hi
UnusualWithin(slot, component, lo, hi) ==
    /\ slot.component = component
    /\ slot.duration.class = "Unusual"
    /\ Between(lo, slot.duration.value, hi)

UnusualFrom(slot, component, lo) ==
    /\ slot.component = component
    /\ slot.duration.class = "Unusual"
    /\ U32Le(u32(lo), slot.duration.value)

IsShortPulse(slot) == slot.component = "Pulse" /\ slot.duration.class = "Short"

Rest(s, n) == SubSeq(s, n + 1, Len(s))

\* [Pulse Short, Pause Unusual(p)] with p / 550 > 26, that is p >= 14850
DumpStartShape(s) ==
    Len(s) >= 2 /\ IsShortPulse(s[1]) /\ UnusualFrom(s[2], "Pause", 14850)

\* C5: ir_dump_start succeeds iff the first two slots are (Pulse, Short) and
\* (Pause, Unusual(p)) with floor(p/550) > 26, and then returns the stream
\* without them; on any other input it fails, and so does the decoding of a
\* signal that starts otherwise.
C5_DumpStart ==
    /\ Called("ir_dump_start") =>
            IF DumpStartShape(signals)
            THEN result = Ok(Rest(signals, 2), "unit")
            ELSE result.kind = "Err" /\ result.input = signals
    /\ (entry \in {"ir_dump_to_packets", "stream_to_packets"} /\ pc = "done"
            /\ ~DumpStartShape(signals))
            => result.kind # "Ok"

\* C5 witness: the two slots are consumed and a third is handed back
C5_Witness ==
    /\ Called("ir_dump_start")
    /\ Len(signals) = 3
    /\ result.kind = "Ok"
    /\ result.rest = <<signals[3]>>

\* [Pulse Unusual(p), Pause Unusual(q)], p/550 in [4,7) and q/550 in [15,20)
PacketStartShape(s) ==
    /\ Len(s) >= 2
    /\ UnusualWithin(s[1], "Pulse", 2200, 3849)
    /\ UnusualWithin(s[2], "Pause", 8250, 10999)

\* C6: packet_start succeeds iff the first two slots are (Pulse, Unusual(p))
\* and (Pause, Unusual(q)) with floor(p/550) in [4,7) and floor(q/550) in
\* [15,20), consuming exactly those two; any other head is an error.
C6_PacketStart ==
    Called("packet_start") =>
        IF PacketStartShape(signals)
        THEN result = Ok(Rest(signals, 2), "unit")
        ELSE result.kind = "Err" /\ result.input = signals

\* C6 witness: a leader at the lower edge of both bands, and a slot after it
C6_Witness ==
    /\ Called("packet_start")
    /\ Len(signals) = 3
    /\ signals[1] = PulseOf(u32(2200))
    /\ signals[2] = PauseOf(u32(8250))
    /\ result = Ok(<<signals[3]>>, "unit")

BitShape(s) ==
    /\ Len(s) >= 2
    /\ IsShortPulse(s[1])
    /\ s[2].component = "Pause"
    /\ s[2].duration.class \in {"Short", "Long"}

\* C7: packet_bit consumes exactly two slots, giving 0 for (Pulse Short, Pause
\* Short) and 1 for (Pulse Short, Pause Long); in single_packet the run has at
\* least one bit, and the first pair of another shape ends it unconsumed, so
\* that packet_end gets exactly the slots after the last decoded bit.
C7_BitRun ==
    /\ Called("packet_bit") =>
            IF BitShape(signals)
            THEN result = Ok(Rest(signals, 2), signals[2].duration.class = "Long")
            ELSE result.kind = "Err" /\ result.input = signals
    /\ (InSinglePacket /\ pc = "packet_end") =>
            /\ bits # <<>>
            /\ stream = Rest(i, 2 + 2 * Len(bits))
            /\ ~BitShape(stream)
            /\ \A k \in 1..Len(bits) :
                    /\ BitShape(Rest(i, 2 * k))
                    /\ bits[k] = (i[2 * k + 2].duration.class = "Long")

\* C7 witness: after the bits 0, 1 the run stops in front of a packet end
C7_Witness ==
    /\ entry = "single_packet"
    /\ pc = "packet_end"
    /\ bits = <<FALSE, TRUE>>
    /\ stream = GapEnd

\* [Pulse Short, Pause Unusual(p)] with p/550 in [4,7)
GapShape(s) ==
    Len(s) >= 2 /\ IsShortPulse(s[1]) /\ UnusualWithin(s[2], "Pause", 2200, 3849)

\* C8: packet_end succeeds in exactly two cases: the stream is the single slot
\* (Pulse Short), which it consumes, or it starts with (Pulse Short), (Pause
\* Unusual(p)) with floor(p/550) in [4,7), which it consumes; anything else is
\* an error.
C8_PacketEnd ==
    Called("packet_end") =>
        IF Len(signals) = 1 /\ IsShortPulse(signals[1])
        THEN result = Ok(<<>>, "unit")
        ELSE IF GapShape(signals)
        THEN result = Ok(Rest(signals, 2), "unit")
        ELSE result.kind = "Err" /\ result.input = signals

\* C8 witness: the lone short pulse at the end of the stream is consumed
C8_Witness ==
    /\ Called("packet_end")
    /\ signals = <<PulseShort>>
    /\ result = Ok(<<>>, "unit")

Decoded == Called("stream_to_packets")

\* C9: decoding is all-or-nothing: stream_to_packets returns either an error
\* or the complete packet list of the whole stream; when slots are left after
\* the packets recognised, the result is an error and carries none of them.
C9_AllOrNothing ==
    Decoded =>
        /\ result.kind \in {"Ok", "Err"}
        /\ result.kind = "Ok" => (result.out = acc /\ acc # <<>> /\ i = <<>>)
        /\ result.kind = "Err" => DOMAIN result = {"kind", "input", "code"}
        /\ (acc # <<>> /\ i # <<>>) => result = Error(i, "Eof")

ShortClass(d) == Between(275, d, 824)

OddLength == Len(signal_timings) % 2 = 1

RECURSIVE TotalBits(_)
TotalBits(packets) ==
    IF packets = <<>> THEN 0
    ELSE Len(Head(packets).data) + TotalBits(Tail(packets))

\* C10 as stated: no raw sequence of odd length decodes successfully.
C10_NoOddLengthDecodes ==
    (Decoded /\ OddLength) => result.kind # "Ok"

\* C10, amended: a raw sequence of odd length decodes successfully only when
\* its last duration is a Short pulse, the lone pulse that packet_end takes at
\* the end of the stream; then its length is 4k + 2B + 1 for the k packets and
\* B bits returned.  Every other sequence of odd length fails to decode.
C10_OddLengthEndsWithLonePulse ==
    (Decoded /\ OddLength) =>
        IF ShortClass(signal_timings[Len(signal_timings)])
        THEN result.kind = "Ok" =>
                Len(signal_timings) = 4 * Len(result.out) + 2 * TotalBits(result.out) + 1
        ELSE result.kind # "Ok"

\* C10 witness: the nine durations of one packet of the bits 0, 1 decode
C10_Witness ==
    /\ Decoded
    /\ signal_timings = Raw(EncodeDump(<<<<FALSE, TRUE>>>>, LoneEnd))
    /\ result = [kind |-> "Ok", out |-> <<[data |-> <<TRUE, FALSE>>]>>]


\* a step in which a grammar rule was applied inside the decoder and succeeded
RuleSucceeded ==
    /\ applications' = applications + 1
    /\ \/ pc = "ir_dump_start" /\ pc' = "packet_start"
       \/ pc = "packet_start" /\ pc' = "packet_bit"
       \/ pc = "packet_bit" /\ Len(bits') = Len(bits) + 1
       \/ pc = "packet_end" /\ pc' = "packet_build"

\* a step in which a grammar rule was applied inside the decoder and failed
RuleFailed == applications' = applications + 1 /\ ~RuleSucceeded

Decoding == entry \in {"stream_to_packets", "ir_dump_to_packets", "single_packet"}

\* the calls of the decoder and of its rules
InDecoder == Decoding \/ entry \in RuleEntries

ConsumingStep ==
    /\ RuleSucceeded => Len(stream') < Len(stream)
    /\ (Decoding /\ RuleFailed) =>
            /\ stream' \in {stream, i}
            /\ pc' \in {"done", "packet_end", "all_consuming"}
            /\ pc' # pc
    /\ (Decoding /\ Len(bits') > Len(bits)) => Len(stream') < Len(stream)
    /\ (Decoding /\ Len(acc') > Len(acc)) => Len(i') < Len(i)

\* the steps a call can still take are bounded by the slots left and by its
\* position: each position is left either for a later one or with fewer slots
Rank ==
    CASE pc = "done" -> 0
      [] pc = "all_consuming" -> 1
      [] pc = "packet_start" -> 2
      [] pc = "packet_return" -> 3
      [] pc = "packet_build" -> 4
      [] pc = "packet_end" -> 5
      [] pc = "packet_bit" -> 6
      [] pc = "ir_dump_start" -> 7
      [] pc = "stream_to_signals" -> 8

Variant ==
    Rank + 7 * Len(CASE pc = "stream_to_signals" -> signal_timings
                     [] pc \in {"all_consuming", "done"} -> <<>>
                     [] OTHER -> stream)

\* the decoder can take the step of the position it is at
HasNextStep ==
    /\ pc = "ir_dump_start" => ENABLED IrDumpStart
    /\ pc = "packet_start" => ENABLED PacketStart
    /\ pc = "packet_bit" => ENABLED PacketBit
    /\ pc = "packet_end" => ENABLED PacketEnd
    /\ pc = "packet_build" => ENABLED PacketBuild
    /\ pc = "packet_return" => ENABLED PacketReturn
    /\ pc = "all_consuming" => ENABLED AllConsuming

C16_DecodedLength ==
    (Decoded /\ result.kind = "Ok") =>
        LET k == Len(result.out)
            B == TotalBits(result.out)
            L == Len(signal_timings)
        IN  /\ k >= 1
            /\ \A j \in 1..k : Len(result.out[j].data) >= 1
            /\ L = 4 * k + 2 * B + (IF signals[L].component = "Pulse" THEN 1 ELSE 2)
            /\ signals[L].component = "Pause" => GapShape(Rest(signals, L - 2))
            /\ applications = 3 * k + B + 2

\* C16 witness: two packets of one bit each and a gap after the second one,
\* 4 * 2 + 2 * 2 + 2 = 14 durations
C16_Witness ==
    /\ Decoded
    /\ signal_timings = Raw(EncodeDump(<<<<FALSE>>, <<TRUE>>>>, GapEnd))
    /\ Len(signal_timings) = 14
    /\ result.kind = "Ok"
    /\ Len(result.out) = 2

PlanOfGapEnded(s) == CHOOSE Bs \in Plans : EncodeDump(Bs, GapEnd) = s

EndsWithGap(s) == Len(s) >= 2 /\ GapShape(Rest(s, Len(s) - 2))

\* C17 as stated: a stream whose final packet ends with (Pulse Short, Pause
\* Unusual(p)), floor(p/550) in [4,7), with no slots after that gap, is
\* rejected by ir_dump_to_packets.
C17_FinalGapRejected ==
    (entry = "ir_dump_to_packets" /\ pc = "done" /\ EndsWithGap(signals))
        => result.kind = "Err"

\* C17, amended: the gap form of packet_end is accepted at the end of the
\* stream too.  The stream of a dump-start pair and k >= 1 packets, a gap
\* after every packet including the last and no slots after it, is decoded by
\* ir_dump_to_packets into its k packets with nothing left over: the
\* packet_start applied after the last gap fails on the empty stream, which
\* ends many1's loop with the packets read so far.
C17_FinalGapAccepted ==
    (entry = "ir_dump_to_packets" /\ pc = "done" /\ signals \in WellFormed(GapEnd)) =>
        /\ EndsWithGap(signals)
        /\ result = Ok(<<>>, [j \in 1..Len(PlanOfGapEnded(signals)) |->
                                [data |-> Reversed(PlanOfGapEnded(signals)[j])]])
        /\ stream = <<>>
        /\ Len(acc) = Len(PlanOfGapEnded(signals))

\* C17 witness: one packet of the bits 0, 1 and a gap, and nothing after it
C17_Witness ==
    /\ entry = "ir_dump_to_packets"
    /\ pc = "done"
    /\ signals = EncodeDump(<<<<FALSE, TRUE>>>>, GapEnd)
    /\ result = Ok(<<>>, <<[data |-> <<TRUE, FALSE>>]>>)

TryFromCalled == entry = "dump_file" /\ pc = "done"

\* where in `contents` the error e was raised, from 0
Position(e) == Len(contents) - Len(e.input)

\* C12: a `Version: ` or `frequency: ` value that is not one or more decimal
\* digits, or that exceeds 2^32-1, makes DumpFile::try_from return an Err
\* value, never a panic, whose position is the position of that value.
C12_BadNumberIsAnErrorAtTheValue ==
    TryFromCalled =>
        /\ contents \in VersionFaults =>
                result.kind = "Err" /\ Position(result) = Len(HeaderHead)
        /\ \A before \in SeqsUpTo({SignalOn, SignalOff}, MaxRecords - 1),
              bad \in NotDigits \cup TooLarge,
              after \in SeqsUpTo({SignalOn}, 1) :
                contents = FrequencyFault(before, bad, after) =>
                    /\ result.kind = "Err"
                    /\ Position(result)
                            = Len(DumpText(u32(1), before) \o RecordHead(Shown(SignalOn)))

\* the texts made of the two header lines and complete records, and nothing else
Complete == WellFormedTexts \cup {CrLf}

\* the texts with both header lines and then a malformed record, or content
\* after the last record
FaultAfterHeader ==
    (RecordFaults \cup FrequencyFaults \cup TrailingContent
        \cup {t \in CutShort : Len(t) > Len(HeaderText("1"))}
        \cup {HeaderText(v) \o Records(ss) \o "x" :
                    v \in TooLarge, ss \in SeqsUpTo({SignalOn}, 1)})
        \ Complete

\* what the claim requires of try_from, with the results it may give for a fault
WholeOrNothing(outcome) ==
    /\ result.kind = "Ok" => contents \in Complete
    /\ \A v \in Versions, ss \in SeqsUpTo(Signals, MaxRecords) :
            contents = DumpText(v, ss) =>
                result = [kind |-> "Ok", out |-> [version |-> v, signals |-> ss]]
    /\ contents = HeaderText("1") =>
            result = [kind |-> "Ok", out |-> [version |-> u32(1), signals |-> <<>>]]
    /\ contents \in FaultAfterHeader =>
            /\ result.kind \in outcome
            /\ "out" \notin DOMAIN result

\* C13: DumpFile::try_from returns a DumpFile only when the whole input is the
\* two header lines and zero or more complete six-line records with nothing
\* left over, and then with the signals of the input in their order (the
\* header alone gives version 1 and no signals); when a record is malformed or
\* anything follows the last record the result is an error, without the
\* signals of the well-formed records before the fault.
C13_WholeDumpOrError ==
    TryFromCalled => WholeOrNothing({"Err"})

PlotCalled == entry = "plot_signal" /\ pc = "done"

\* the sum of the rounded durations of the k-th element on, added to total,
\* and whether it leaves the u32 range
RECURSIVE RoundedTotal(_, _, _)
RoundedTotal(durations, k, total) ==
    IF k > Len(durations) THEN [value |-> total, overflow |-> FALSE]
    ELSE LET half == U32Add(durations[k], u32(275))
             rounded == U32Mul(U32Div(half.value, ROUND_TO), ROUND_TO).value
             s == U32Add(total, rounded)
         IN  IF half.overflow \/ s.overflow THEN [value |-> total, overflow |-> TRUE]
             ELSE RoundedTotal(durations, k + 1, s.value)

\* C15: the upper limit of plot_signal's time axis is the larger of the sum of
\* the signal's durations, each rounded to the nearest 550, and
\* round_to(300000, 550); it is at least 300,000 for every signal, the empty
\* one included, and is the rounded total when that exceeds the floor.
C15_TimeAxisLimit ==
    PlotCalled =>
        LET total == RoundedTotal(signal_timings, 1, u32(0))
            least == U32Mul(U32Div(u32(300275), ROUND_TO), ROUND_TO).value
        IN  /\ ~total.overflow
            /\ result.kind = "Ok"
            /\ result.out = U32Max(total.value, least)
            /\ U32Le(u32(300000), result.out)

WrapperDone == entry \in Wrappers /\ pc = "done"

\* the positions in the dump of the signals ParsedSignal::try_from fails for
Undecodable ==
    {k \in 1..Len(dump.out.signals) :
        stream_to_packets(dump.out.signals[k].data, profile).kind = "Err"}

\* the positions of the signals the run plotted, decoded or wrote
Processed ==
    {effects[e][2] : e \in {n \in 1..Len(effects) :
        effects[n][1] \in {"write_record", "plot_signal", "println"}}}

\* C14: in both wrappers, when DumpFile::try_from fails the run prints a
\* diagnostic, creates no output (no CSV writer or file, no output directory,
\* no image) and exits successfully; when ParsedSignal::try_from fails for a
\* signal the run ends with the error "Failed to parse signal" at that signal,
\* not successfully, and no later signal of the dump is processed.
C14_SoftAndHardFailure ==
    WrapperDone =>
        /\ dump.kind = "Err" =>
                /\ result = Success
                /\ effects = <<<<"eprintln", "Failed decoding dump">>>>
        /\ dump.kind = "Ok" =>
                /\ result = Failure("Failed to parse signal") => next_signal \in Undecodable
                /\ \A k \in Undecodable :
                        /\ next_signal <= k
                        /\ result # Success
                        /\ \A n \in Processed : n <= k
                        /\ next_signal = k =>
                                IF entry = "csv" \/ k \in Processed
                                THEN result = Failure("Failed to parse signal")
                                ELSE result.kind = "Err" /\ result.context \in PlotFailures

\* C14 witness: the csv wrapper on a dump of a signal with no data and a
\* signal that decodes; it stops at the first with the writer created and no
\* record written
C14_Witness ==
    /\ entry = "csv"
    /\ pc = "done"
    /\ contents = DumpText(u32(1), <<SignalOff, SignalOn>>)
    /\ result = Failure("Failed to parse signal")
    /\ next_signal = 1
    /\ effects = <<<<"from_path", "output_file">>>>

=========================================================================
